---- MODULE Spec2Model ----
(***************************************************************************)
(* A model of the 6502-class CPU emulator of src/src/main.rs: the CPU      *)
(* struct (registers, status, program counter, memory), its memory        *)
(* helpers, the addressing-mode resolver, load / reset / run, and a       *)
(* caller that constructs one CPU and calls its methods.                   *)
(*                                                                         *)
(* Representation.  The memory array [u8; 0xFFFF] is the function         *)
(* `memory` restricted to the addresses that hold a non-zero byte; every   *)
(* other index below MemSize holds 0 (Byte).  A Vec<u8> is the record      *)
(* [len, at]: its length and its non-zero bytes by 0-based index.  Both    *)
(* are encodings of the full array, chosen so that programs of 0x7FFF      *)
(* bytes fit in a state.  All arithmetic keeps its width: bytes are        *)
(* 0..255, addresses 0..65535.                                             *)
(*                                                                         *)
(* A panic (index out of bounds, todo!(), panic!()) ends the process: the  *)
(* panic message is recorded in `outcome` and nothing is enabled after it. *)
(***************************************************************************)
EXTENDS Integers, Sequences, FiniteSets, TLC

VARIABLES register_a, register_x, register_y, status, program_counter, memory,
          outcome, op, pre, fetched, ret, calls

cpu == <<register_a, register_x, register_y, status, program_counter, memory>>
vars == <<register_a, register_x, register_y, status, program_counter, memory,
          outcome, op, pre, fetched, ret, calls>>

(***************************************************************************)
(* Program constants.                                                      *)
(***************************************************************************)
\* memory: [Value; 0xFFFF] -- the array has 0xFFFF elements, indices 0..0xFFFE
MemSize == 65535
\* the largest u16 (type Address = u16)
MaxU16 == 65535
\* the load address 0x8000
LoadBase == 32768
\* the reset vector location 0xFFFC
ResetVector == 65532

BRK == 0
LDA_IMM == 169
LDA_ZP == 165
LDA_ABS == 173
TAX == 170
INX == 232

(***************************************************************************)
(* Bounds of the model.                                                    *)
(***************************************************************************)
\* how many calls the caller makes on the CPU
MaxCalls == 3

(***************************************************************************)
(* Panic messages and call outcomes.                                       *)
(***************************************************************************)
NoErr == "none"
IndexPanic == "panic: index out of bounds"
OverflowPanic == "panic: attempt to add with overflow"
TodoPanic == "panic: not yet implemented"
ModePanic == "panic: mode is not supported"
SlicePanic == "panic: range end index out of range for slice"
Panics == {IndexPanic, OverflowPanic, TodoPanic, ModePanic, SlicePanic}

Idle == "constructed"
Returned == "returned"
Running == "running"

(***************************************************************************)
(* 8-bit bit operations, as the code's  |  and  &  on u8.                  *)
(***************************************************************************)
RECURSIVE BitAnd(_, _)
BitAnd(a, b) ==
    IF a = 0 \/ b = 0 THEN 0
    ELSE (a % 2) * (b % 2) + 2 * BitAnd(a \div 2, b \div 2)

RECURSIVE BitOr(_, _)
BitOr(a, b) ==
    IF a = 0 THEN b
    ELSE IF b = 0 THEN a
    ELSE (IF (a % 2) + (b % 2) > 0 THEN 1 ELSE 0) + 2 * BitOr(a \div 2, b \div 2)

(***************************************************************************)
(* The memory array and Vec<u8>.                                           *)
(***************************************************************************)
\* the element of the array at an index below MemSize
Byte(mem, addr) == IF addr \in DOMAIN mem THEN mem[addr] ELSE 0

\* the array with one element replaced
Store(mem, addr, value) ==
    [a \in (IF value = 0 THEN DOMAIN mem \ {addr} ELSE DOMAIN mem \cup {addr}) |->
        IF a = addr THEN value ELSE mem[a]]

\* vec![...]
Vec(s) ==
    [len |-> Len(s),
     at  |-> [i \in {k - 1 : k \in {j \in 1..Len(s) : s[j] # 0}} |-> s[i + 1]]]

VecByte(v, i) == IF i \in DOMAIN v.at THEN v.at[i] ELSE 0

\* memory[from..from+len].copy_from_slice(&program[..])
CopyFromSlice(mem, from, program) ==
    LET kept == {a \in DOMAIN mem : a < from \/ a >= from + program.len}
        new  == {from + i : i \in DOMAIN program.at}
    IN  [a \in kept \cup new |-> IF a \in new THEN program.at[a - from] ELSE mem[a]]

(***************************************************************************)
(* CPU::mem_read, mem_read_u16, mem_write, mem_write_u16.  Each yields the *)
(* panic message (or NoErr) with its result.                               *)
(***************************************************************************)
mem_read(mem, addr) ==
    IF addr < MemSize
    THEN [err |-> NoErr, val |-> Byte(mem, addr)]
    ELSE [err |-> IndexPanic, val |-> 0]

\* addr + 1 overflows u16 only for addr = 0xFFFF, where mem_read(addr) has
\* already panicked: the overflow check (debug builds) and the wrap (release
\* builds) are both unreachable, and both builds behave alike.
mem_read_u16(mem, addr) ==
    LET lo == mem_read(mem, addr) IN
    IF lo.err # NoErr THEN lo
    ELSE IF addr + 1 > MaxU16 THEN [err |-> OverflowPanic, val |-> 0]
    ELSE LET hi == mem_read(mem, addr + 1) IN
         IF hi.err # NoErr THEN hi
         ELSE [err |-> NoErr, val |-> hi.val * 256 + lo.val]

mem_write(mem, addr, value) ==
    IF addr < MemSize
    THEN [err |-> NoErr, mem |-> Store(mem, addr, value)]
    ELSE [err |-> IndexPanic, mem |-> mem]

\* a plausible slip: the high byte is stored at addr and the low byte after it
mem_write_u16_swapped(mem, addr, value) ==
    LET hi == value \div 256
        lo == value % 256
        w1 == mem_write(mem, addr, hi)
    IN  IF w1.err # NoErr THEN w1
        ELSE IF addr + 1 > MaxU16 THEN [err |-> OverflowPanic, mem |-> w1.mem]
        ELSE mem_write(w1.mem, addr + 1, lo)

\* the low byte is stored before the high byte's store can panic
mem_write_u16(mem, addr, value) ==
    LET hi == value \div 256
        lo == value % 256
        w1 == mem_write(mem, addr, lo)
    IN  IF w1.err # NoErr THEN w1
        ELSE IF addr + 1 > MaxU16 THEN [err |-> OverflowPanic, mem |-> w1.mem]
        ELSE mem_write(w1.mem, addr + 1, hi)

(***************************************************************************)
(* CPU::get_op_address.                                                    *)
(***************************************************************************)
AddressingMode ==
    {"Immediate", "ZeroPage", "ZeroPage_X", "ZeroPage_Y", "Absolute",
     "Absolute_X", "Absolute_Y", "Indirect_X", "Indirect_Y", "NonAddressing"}

\* a plausible slip: the index is added in 16 bits, without the 8-bit wrap
addr_zero_page_indexed_16(mem, pc, index) ==
    LET pos == mem_read(mem, pc) IN
    IF pos.err # NoErr THEN pos
    ELSE [err |-> NoErr, val |-> pos.val + index]

\* ZeroPage_X, ZeroPage_Y: pos.wrapping_add(index) as u16, on u8
addr_zero_page_indexed(mem, pc, index) ==
    LET pos == mem_read(mem, pc) IN
    IF pos.err # NoErr THEN pos
    ELSE [err |-> NoErr, val |-> (pos.val + index) % 256]

\* Absolute_X, Absolute_Y: base.wrapping_add(index as u16)
addr_absolute_indexed(mem, pc, index) ==
    LET base == mem_read_u16(mem, pc) IN
    IF base.err # NoErr THEN base
    ELSE [err |-> NoErr, val |-> (base.val + index) % 65536]

\* Indirect_X: both reads are below 0x100 and cannot panic
addr_indirect_x(mem, pc, x) ==
    LET base == mem_read(mem, pc) IN
    IF base.err # NoErr THEN base
    ELSE LET ptr == (base.val + x) % 256
             lo  == mem_read(mem, ptr)
             hi  == mem_read(mem, (ptr + 1) % 256)
         IN  [err |-> NoErr, val |-> hi.val * 256 + lo.val]

\* a plausible slip: the pointer is read as a 16-bit word, so that its high
\* byte comes from base + 1 beyond the zero page
addr_indirect_y_reads_word(mem, pc, y) ==
    LET base == mem_read(mem, pc) IN
    IF base.err # NoErr THEN base
    ELSE LET deref_base == mem_read_u16(mem, base.val)
         IN  [err |-> NoErr, val |-> (deref_base.val + y) % 65536]

\* Indirect_Y
addr_indirect_y(mem, pc, y) ==
    LET base == mem_read(mem, pc) IN
    IF base.err # NoErr THEN base
    ELSE LET lo == mem_read(mem, base.val)
             hi == mem_read(mem, (base.val + 1) % 256)
             deref_base == hi.val * 256 + lo.val
         IN  [err |-> NoErr, val |-> (deref_base + y) % 65536]

get_op_address(mode, pc, x, y, mem) ==
    CASE mode = "Immediate" -> [err |-> NoErr, val |-> pc]
      [] mode = "ZeroPage" -> mem_read(mem, pc)
      [] mode = "Absolute" -> mem_read_u16(mem, pc)
      [] mode = "ZeroPage_X" -> addr_zero_page_indexed(mem, pc, x)
      [] mode = "ZeroPage_Y" -> addr_zero_page_indexed(mem, pc, y)
      [] mode = "Absolute_X" -> addr_absolute_indexed(mem, pc, x)
      [] mode = "Absolute_Y" -> addr_absolute_indexed(mem, pc, y)
      [] mode = "Indirect_X" -> addr_indirect_x(mem, pc, x)
      [] mode = "Indirect_Y" -> addr_indirect_y(mem, pc, y)
      [] OTHER -> [err |-> ModePanic, val |-> 0]

(***************************************************************************)
(* CPU::update_zero_and_negative_flags.                                    *)
(***************************************************************************)
\* a plausible slip: the negative flag is set but never cleared
flags_negative_sticks(st, result) ==
    LET z == IF result = 0 THEN BitOr(st, 2) ELSE BitAnd(st, 253)
    IN  IF BitAnd(result, 128) # 0 THEN BitOr(z, 128) ELSE z

\* a plausible slip: status is overwritten with the two flags
flags_overwrite_status(st, result) ==
    (IF result = 0 THEN 2 ELSE 0) + (IF result >= 128 THEN 128 ELSE 0)

\* a plausible slip: the zero flag is set but never cleared, and the negative
\* test compares with > 0x80 for bit 7
flags_never_cleared(st, result) ==
    LET z == IF result = 0 THEN BitOr(st, 2) ELSE st
    IN  IF result > 128 THEN BitOr(z, 128) ELSE BitAnd(z, 127)

update_zero_and_negative_flags(st, result) ==
    LET z == IF result = 0 THEN BitOr(st, 2) ELSE BitAnd(st, 253)
    IN  IF BitAnd(result, 128) # 0 THEN BitOr(z, 128) ELSE BitAnd(z, 127)

(***************************************************************************)
(* CPU::lda, inx, tax: the registers after the instruction, or the panic.  *)
(***************************************************************************)
lda(mode, a, x, y, st, pc, mem) ==
    LET addr == get_op_address(mode, pc, x, y, mem) IN
    IF addr.err # NoErr THEN [err |-> addr.err, a |-> a, status |-> st]
    ELSE LET value == mem_read(mem, addr.val) IN
         IF value.err # NoErr THEN [err |-> value.err, a |-> a, status |-> st]
         ELSE [err |-> NoErr, a |-> value.val,
               status |-> update_zero_and_negative_flags(st, value.val)]

\* a plausible slip: the increment saturates at 0xff
inx_saturates(x, st) ==
    LET nx == IF x = 255 THEN 255 ELSE x + 1
    IN  [x |-> nx, status |-> update_zero_and_negative_flags(st, nx)]

inx(x, st) ==
    LET nx == IF x = 255 THEN 0 ELSE x + 1
    IN  [x |-> nx, status |-> update_zero_and_negative_flags(st, nx)]

\* a plausible slip: the transfer leaves the flags as they were
tax_skips_flags(a, st) == [x |-> a, status |-> st]

tax(a, st) == [x |-> a, status |-> update_zero_and_negative_flags(st, a)]

(***************************************************************************)
(* CPU::load and CPU::reset.                                               *)
(***************************************************************************)
\* a plausible slip: the reset vector is written before the copy
load_vector_first(mem, program) ==
    IF LoadBase + program.len > MemSize
    THEN [err |-> SlicePanic, mem |-> mem]
    ELSE LET w == mem_write_u16(mem, ResetVector, LoadBase) IN
         [err |-> w.err, mem |-> CopyFromSlice(w.mem, LoadBase, program)]

\* the slice memory[0x8000 .. 0x8000 + len] is taken first and panics when its
\* end lies beyond the array; then the copy, then the reset vector
load(mem, program) ==
    IF LoadBase + program.len > MemSize
    THEN [err |-> SlicePanic, mem |-> mem]
    ELSE mem_write_u16(CopyFromSlice(mem, LoadBase, program), ResetVector, LoadBase)

\* a plausible slip: register_x is not cleared
reset_keeps_x(x, pc, mem) ==
    LET v == mem_read_u16(mem, ResetVector) IN
    [err |-> v.err, a |-> 0, x |-> x, status |-> 0,
     pc |-> IF v.err = NoErr THEN v.val ELSE pc]

\* a plausible slip: the program counter is set to the load address, not to
\* what the reset vector holds
reset_to_load_base(x, pc, mem) ==
    [err |-> NoErr, a |-> 0, x |-> 0, status |-> 0, pc |-> LoadBase]

reset(x, pc, mem) ==
    LET v == mem_read_u16(mem, ResetVector) IN
    [err |-> v.err, a |-> 0, x |-> 0, status |-> 0,
     pc |-> IF v.err = NoErr THEN v.val ELSE pc]

(***************************************************************************)
(* CPU::run: one iteration of the loop.  The fetch reads the opcode and    *)
(* advances the program counter (pc1); the match executes the instruction. *)
(* Each arm yields the registers after it and whether the loop goes on     *)
(* (Running), returns (Returned) or panics.                                *)
(* program_counter += 1 cannot overflow: a fetch at 0xFFFF panics in       *)
(* mem_read, and lda succeeds only when the counter is below 0xFFFF.       *)
(***************************************************************************)
\* a plausible slip: BRK sets the break flag (bit 4), as the hardware does
run_brk_sets_break(a, x, st, pc1) ==
    [outcome |-> Returned, a |-> a, x |-> x, status |-> BitOr(st, 16), pc |-> pc1]

\* 0x00 => return
run_brk(a, x, st, pc1) ==
    [outcome |-> Returned, a |-> a, x |-> x, status |-> st, pc |-> pc1]

\* 0xA9 / 0xA5 / 0xAD => { self.lda(mode); self.program_counter += 1 }
run_lda(mode, a, x, y, st, pc1, mem) ==
    LET r == lda(mode, a, x, y, st, pc1, mem) IN
    IF r.err # NoErr
    THEN [outcome |-> r.err, a |-> a, x |-> x, status |-> st, pc |-> pc1]
    ELSE [outcome |-> Running, a |-> r.a, x |-> x, status |-> r.status, pc |-> pc1 + 1]

\* 0xAA => self.tax()
run_tax(a, x, st, pc1) ==
    LET r == tax(a, st) IN
    [outcome |-> Running, a |-> a, x |-> r.x, status |-> r.status, pc |-> pc1]

\* 0xE8 => self.inx()
run_inx(a, x, st, pc1) ==
    LET r == inx(x, st) IN
    [outcome |-> Running, a |-> a, x |-> r.x, status |-> r.status, pc |-> pc1]

\* a plausible slip: the catch-all arm skips the byte and goes on
run_todo_skips(a, x, st, pc1) ==
    [outcome |-> Running, a |-> a, x |-> x, status |-> st, pc |-> pc1]

\* _ => todo!("")
run_todo(a, x, st, pc1) ==
    [outcome |-> TodoPanic, a |-> a, x |-> x, status |-> st, pc |-> pc1]

\* a plausible slip: the fetch does not advance the program counter
run_step_no_advance(a, x, y, st, pc, mem) ==
    LET f == mem_read(mem, pc) IN
    IF f.err # NoErr
    THEN [opscode |-> -1,
          r |-> [outcome |-> f.err, a |-> a, x |-> x, status |-> st, pc |-> pc]]
    ELSE
    LET opscode == f.val
        pc1     == pc
    IN  [opscode |-> opscode,
         r |-> CASE opscode = BRK -> run_brk(a, x, st, pc1)
                 [] opscode = LDA_IMM -> run_lda("Immediate", a, x, y, st, pc1, mem)
                 [] opscode = LDA_ZP -> run_lda("ZeroPage", a, x, y, st, pc1, mem)
                 [] opscode = LDA_ABS -> run_lda("Absolute", a, x, y, st, pc1, mem)
                 [] opscode = TAX -> run_tax(a, x, st, pc1)
                 [] opscode = INX -> run_inx(a, x, st, pc1)
                 [] OTHER -> run_todo(a, x, st, pc1)]

\* `opscode` is -1 when the fetch itself panicked
run_step(a, x, y, st, pc, mem) ==
    LET f == mem_read(mem, pc) IN
    IF f.err # NoErr
    THEN [opscode |-> -1,
          r |-> [outcome |-> f.err, a |-> a, x |-> x, status |-> st, pc |-> pc]]
    ELSE
    LET opscode == f.val
        pc1     == pc + 1
    IN  [opscode |-> opscode,
         r |-> CASE opscode = BRK -> run_brk(a, x, st, pc1)
                 [] opscode = LDA_IMM -> run_lda("Immediate", a, x, y, st, pc1, mem)
                 [] opscode = LDA_ZP -> run_lda("ZeroPage", a, x, y, st, pc1, mem)
                 [] opscode = LDA_ABS -> run_lda("Absolute", a, x, y, st, pc1, mem)
                 [] opscode = TAX -> run_tax(a, x, st, pc1)
                 [] opscode = INX -> run_inx(a, x, st, pc1)
                 [] OTHER -> run_todo(a, x, st, pc1)]

(***************************************************************************)
(* The caller's inputs.                                                    *)
(***************************************************************************)
\* addresses the caller reads and writes: zero page, the load base, the
\* reset vector and the top of the address space
Addrs == {16, 32768, 65532, 65533, 65534, 65535}
Bytes == {85, 128}
Words == {4660}

\* register values a caller assigns to the pub fields before a call
\* (test_inx_overflow assigns register_x = 0xff)
Snapshots ==
    { [a |-> 0,   x |-> 255, y |-> 0,   status |-> 0,   pc |-> 0],
      [a |-> 85,  x |-> 255, y |-> 1,   status |-> 255, pc |-> 32768],
      [a |-> 128, x |-> 127, y |-> 255, status |-> 125, pc |-> 32768],
      [a |-> 0,   x |-> 0,   y |-> 7,   status |-> 0,   pc |-> 65534] }

\* a program of n bytes, all zero but its last three, which are INX
LongProgram(n) == [len |-> n, at |-> [i \in (n - 3)..(n - 1) |-> INX]]

\* the programs of the tests, of the scenarios, and of the edge cases
Programs ==
    { Vec(<<>>),
      Vec(<<169, 5, 0>>),
      Vec(<<169, 0, 0>>),
      Vec(<<169, 5, 170, 0>>),
      Vec(<<169, 192, 170, 232, 0>>),
      Vec(<<169, 255, 170, 232, 232, 0>>),
      Vec(<<165, 16, 0>>),
      Vec(<<232, 232, 0>>),
      Vec(<<232, 255, 232, 0>>),
      Vec(<<170, 232, 0>>),
      Vec(<<173, 16, 0, 232, 0>>),
      Vec(<<173, 0, 128, 0>>),
      Vec(<<173, 16, 232, 0>>),
      Vec(<<173, 255, 255, 0>>),
      LongProgram(32764), LongProgram(32765), LongProgram(32767),
      LongProgram(32768), LongProgram(32769) }

(***************************************************************************)
(* Observation: the last call, the CPU before it, the instruction the run  *)
(* loop executed last, and the value a read returned.                      *)
(***************************************************************************)
NoProgram == Vec(<<>>)
NoFetch == [valid |-> FALSE, pc |-> 0, opscode |-> 0, a |-> 0, x |-> 0, status |-> 0]
NoRet == -1

Snapshot ==
    [a |-> register_a, x |-> register_x, y |-> register_y, status |-> status,
     pc |-> program_counter, memory |-> memory]

BeginMode(name, mode, addr, value, program) ==
    /\ outcome \in {Idle, Returned}
    /\ calls < MaxCalls
    /\ calls' = calls + 1
    /\ op' = [name |-> name, prev |-> op.name, mode |-> mode, addr |-> addr,
              value |-> value, program |-> program]
    /\ pre' = Snapshot
    /\ fetched' = NoFetch

Begin(name, addr, value, program) == BeginMode(name, "none", addr, value, program)

Finish(err) == outcome' = IF err = NoErr THEN Returned ELSE err

(***************************************************************************)
(* CPU::new                                                                *)
(***************************************************************************)
Init ==
    /\ register_a = 0
    /\ register_x = 0
    /\ register_y = 0
    /\ status = 0
    /\ program_counter = 0
    /\ memory = << >>
    /\ outcome = Idle
    /\ op = [name |-> "new", prev |-> "none", mode |-> "none", addr |-> 0,
             value |-> 0, program |-> NoProgram]
    /\ pre = [a |-> 0, x |-> 0, y |-> 0, status |-> 0, pc |-> 0, memory |-> << >>]
    /\ fetched = NoFetch
    /\ ret = NoRet
    /\ calls = 0

(***************************************************************************)
(* The calls.                                                              *)
(***************************************************************************)
MemRead(addr) ==
    /\ Begin("mem_read", addr, 0, NoProgram)
    /\ LET r == mem_read(memory, addr) IN
        /\ ret' = IF r.err = NoErr THEN r.val ELSE NoRet
        /\ Finish(r.err)
    /\ UNCHANGED cpu

MemReadU16(addr) ==
    /\ Begin("mem_read_u16", addr, 0, NoProgram)
    /\ LET r == mem_read_u16(memory, addr) IN
        /\ ret' = IF r.err = NoErr THEN r.val ELSE NoRet
        /\ Finish(r.err)
    /\ UNCHANGED cpu

MemWrite(addr, value) ==
    /\ Begin("mem_write", addr, value, NoProgram)
    /\ LET w == mem_write(memory, addr, value) IN
        /\ memory' = w.mem
        /\ Finish(w.err)
    /\ ret' = NoRet
    /\ UNCHANGED <<register_a, register_x, register_y, status, program_counter>>

MemWriteU16(addr, value) ==
    /\ Begin("mem_write_u16", addr, value, NoProgram)
    /\ LET w == mem_write_u16(memory, addr, value) IN
        /\ memory' = w.mem
        /\ Finish(w.err)
    /\ ret' = NoRet
    /\ UNCHANGED <<register_a, register_x, register_y, status, program_counter>>

\* assignment to the pub fields
SetRegisters(s) ==
    /\ Begin("set_registers", 0, 0, NoProgram)
    /\ register_a' = s.a
    /\ register_x' = s.x
    /\ register_y' = s.y
    /\ status' = s.status
    /\ program_counter' = s.pc
    /\ outcome' = Returned
    /\ ret' = NoRet
    /\ UNCHANGED memory

Load(program) ==
    /\ Begin("load", 0, 0, program)
    /\ LET l == load(memory, program) IN
        /\ memory' = l.mem
        /\ Finish(l.err)
    /\ ret' = NoRet
    /\ UNCHANGED <<register_a, register_x, register_y, status, program_counter>>

Reset ==
    /\ Begin("reset", 0, 0, NoProgram)
    /\ LET r == reset(register_x, program_counter, memory) IN
        /\ register_a' = r.a
        /\ register_x' = r.x
        /\ status' = r.status
        /\ program_counter' = r.pc
        /\ Finish(r.err)
    /\ ret' = NoRet
    /\ UNCHANGED <<register_y, memory>>

\* entry into the loop of CPU::run
Run ==
    /\ Begin("run", 0, 0, NoProgram)
    /\ outcome' = Running
    /\ ret' = NoRet
    /\ UNCHANGED cpu

\* load; reset; and entry into the loop of run
LoadAndRun(program) ==
    /\ Begin("load_and_run", 0, 0, program)
    /\ LET l == load(memory, program)
           r == reset(register_x, program_counter, l.mem)
       IN  /\ memory' = l.mem
           /\ IF l.err # NoErr
              THEN /\ outcome' = l.err
                   /\ UNCHANGED <<register_a, register_x, status, program_counter>>
              ELSE /\ register_a' = r.a
                   /\ register_x' = r.x
                   /\ status' = r.status
                   /\ program_counter' = r.pc
                   /\ outcome' = IF r.err = NoErr THEN Running ELSE r.err
    /\ ret' = NoRet
    /\ UNCHANGED register_y

\* one iteration of the loop of CPU::run
Step ==
    /\ outcome = Running
    /\ LET s == run_step(register_a, register_x, register_y, status,
                         program_counter, memory)
       IN  /\ register_a' = s.r.a
           /\ register_x' = s.r.x
           /\ status' = s.r.status
           /\ program_counter' = s.r.pc
           /\ outcome' = s.r.outcome
           /\ fetched' = IF s.opscode = -1 THEN NoFetch
                         ELSE [valid |-> TRUE, pc |-> program_counter,
                               opscode |-> s.opscode, a |-> register_a,
                               x |-> register_x, status |-> status]
    /\ UNCHANGED <<register_y, memory, op, pre, ret, calls>>

Next ==
    \/ \E addr \in Addrs : MemRead(addr)
    \/ \E addr \in Addrs : MemReadU16(addr)
    \/ \E addr \in Addrs, value \in Bytes : MemWrite(addr, value)
    \/ \E addr \in Addrs, value \in Words : MemWriteU16(addr, value)
    \/ \E s \in Snapshots : SetRegisters(s)
    \/ \E program \in Programs : Load(program)
    \/ Reset
    \/ Run
    \/ \E program \in Programs : LoadAndRun(program)
    \/ Step

Spec == Init /\ [][Next]_vars

(***************************************************************************)
(* The address resolver and the 16-bit accessors on their own: one call on *)
(* a CPU whose registers and memory were set up by its owner.              *)
(***************************************************************************)
UnitBytes == {0, 1, 2, 127, 128, 254, 255}
UnitPcs == {32768, 65534, 65535}
UnitAddrs == {0, 16, 255, 256, 32768, 65532, 65533, 65534, 65535}
UnitWords == {0, 1, 255, 256, 4660, 32768, 65280, 65535}

\* zero-page pointers, with distinct bytes on both sides of the page's end
ZeroPageTable ==
    (0 :> 255) @@ (1 :> 52) @@ (2 :> 18) @@ (127 :> 1) @@ (128 :> 128) @@
    (129 :> 64) @@ (254 :> 254) @@ (255 :> 255) @@ (256 :> 119) @@ (257 :> 33)

\* the table with an operand byte at the program counter and 0xFF after it
UnitMemory(pc, operand) ==
    LET m1 == IF pc < MemSize THEN Store(ZeroPageTable, pc, operand)
              ELSE ZeroPageTable
    IN  IF pc + 1 < MemSize THEN Store(m1, pc + 1, 255) ELSE m1

InitUnit ==
    /\ register_a = 0
    /\ register_x \in UnitBytes
    /\ register_y \in UnitBytes
    /\ status = 0
    /\ program_counter \in UnitPcs
    /\ \E operand \in UnitBytes : memory = UnitMemory(program_counter, operand)
    /\ outcome = Returned
    /\ op = [name |-> "set_registers", prev |-> "mem_write", mode |-> "none",
             addr |-> 0, value |-> 0, program |-> NoProgram]
    /\ pre = [a |-> 0, x |-> 0, y |-> 0, status |-> 0, pc |-> 0, memory |-> memory]
    /\ fetched = NoFetch
    /\ ret = NoRet
    /\ calls = 0

GetOpAddress(mode) ==
    /\ BeginMode("get_op_address", mode, 0, 0, NoProgram)
    /\ LET r == get_op_address(mode, program_counter, register_x, register_y, memory)
       IN  /\ ret' = IF r.err = NoErr THEN r.val ELSE NoRet
           /\ Finish(r.err)
    /\ UNCHANGED cpu

\* mem_write_u16(addr, value); mem_read_u16(addr)
WriteThenRead16(addr, value) ==
    /\ Begin("mem_write_u16; mem_read_u16", addr, value, NoProgram)
    /\ LET w == mem_write_u16(memory, addr, value)
           r == mem_read_u16(w.mem, addr)
       IN  /\ memory' = w.mem
           /\ ret' = IF w.err = NoErr /\ r.err = NoErr THEN r.val ELSE NoRet
           /\ Finish(IF w.err # NoErr THEN w.err ELSE r.err)
    /\ UNCHANGED <<register_a, register_x, register_y, status, program_counter>>

NextUnit ==
    \/ \E mode \in AddressingMode : calls = 0 /\ GetOpAddress(mode)
    \/ \E addr \in UnitAddrs, value \in UnitWords :
          calls = 0 /\ WriteThenRead16(addr, value)

SpecUnit == InitUnit /\ [][NextUnit]_vars


(***************************************************************************)
(* run on its own: one call of run on a CPU whose owner has loaded a       *)
(* program, written a zero-page byte and set the registers and the program *)
(* counter.                                                                *)
(***************************************************************************)
RunPcs == {0, 32768, 32769, 65533, 65534, 65535}

RunMemories ==
    {load(Store(<< >>, 16, 85), p).mem :
        p \in {q \in Programs : LoadBase + q.len <= MemSize}}

InitRun ==
    /\ \E s \in Snapshots :
          /\ register_a = s.a
          /\ register_x = s.x
          /\ register_y = s.y
          /\ status = s.status
    /\ program_counter \in RunPcs
    /\ memory \in RunMemories
    /\ outcome = Returned
    /\ op = [name |-> "set_registers", prev |-> "load", mode |-> "none",
             addr |-> 0, value |-> 0, program |-> NoProgram]
    /\ pre = [a |-> 0, x |-> 0, y |-> 0, status |-> 0, pc |-> 0, memory |-> memory]
    /\ fetched = NoFetch
    /\ ret = NoRet
    /\ calls = 0

NextRun ==
    \/ calls = 0 /\ Run
    \/ Step

\* the loop of run is a tight synchronous loop: once entered, its next
\* iteration is always taken
FairRun == InitRun /\ [][NextRun]_vars /\ WF_vars(Step)

(***************************************************************************)
(* Properties.                                                             *)
(***************************************************************************)
LdaOpcodes == {LDA_IMM, LDA_ZP, LDA_ABS}
KnownOpcodes == {BRK, LDA_IMM, LDA_ZP, LDA_ABS, TAX, INX}
OperandBytes(opscode) ==
    IF opscode = LDA_ABS THEN 2 ELSE IF opscode \in {LDA_IMM, LDA_ZP} THEN 1 ELSE 0

\* the last transition executed an LDA to its end
LdaExecuted == fetched.valid /\ fetched.opscode \in LdaOpcodes /\ outcome \notin Panics

ZeroFlag(st) == (st \div 2) % 2 = 1
NegativeFlag(st) == (st \div 128) % 2 = 1

\* C1: after an LDA has executed, the program counter is past the opcode and
\* all of its operand bytes (one for 0xA9 and 0xA5, two for 0xAD).
C1_PcPastOperands ==
    LdaExecuted =>
        program_counter = fetched.pc + 1 + OperandBytes(fetched.opscode)

\* C2: mem_read and mem_write are total: on every address a read returns the
\* byte the array holds there and a write stores its byte, without a panic.
C2_MemoryTotal ==
    /\ op.name = "mem_read" =>
          outcome = Returned /\ ret = Byte(pre.memory, op.addr)
    /\ op.name = "mem_write" =>
          outcome = Returned /\ Byte(memory, op.addr) = op.value

\* C3: a fetched opcode outside the six defined ones panics with todo!() at
\* once: the registers are as at the fetch, the outcome is not the return of
\* BRK, and nothing runs after it; a run that goes on or returns has fetched
\* a defined opcode, and it returns only on 0x00.
C3_UnknownOpcodeAborts ==
    /\ (fetched.valid /\ fetched.opscode \notin KnownOpcodes) =>
          /\ outcome = TodoPanic
          /\ register_a = fetched.a
          /\ register_x = fetched.x
          /\ status = fetched.status
          /\ program_counter = fetched.pc + 1
          /\ ~ ENABLED Next
    /\ (fetched.valid /\ outcome = Returned) => fetched.opscode = BRK
    /\ outcome = TodoPanic => fetched.valid /\ fetched.opscode \notin KnownOpcodes

C3_Witness ==
    /\ op.name = "load_and_run"
    /\ fetched.valid
    /\ fetched.opscode = 255
    /\ fetched.x = 1
    /\ outcome = TodoPanic

\* C4: a load whose end 0x8000 + len lies beyond the address space ends in an
\* error outcome that is neither a successful return nor a panic, and leaves
\* memory as it was.
C4_LoadOutOfBoundsReported ==
    (op.name = "load" /\ LoadBase + op.program.len > 65536) =>
        /\ outcome # Returned
        /\ outcome \notin Panics
        /\ memory = pre.memory

\* the bytes of memory[from .. from + len] are the bytes of the program, but
\* for the addresses in `except`
Holds(mem, from, program, except) ==
    /\ \A i \in DOMAIN program.at :
          (from + i) \notin except => Byte(mem, from + i) = program.at[i]
    /\ \A a \in DOMAIN mem :
          (a >= from /\ a < from + program.len /\ a \notin except) =>
              mem[a] = VecByte(program, a - from)

RegistersAsBefore ==
    /\ register_a = pre.a
    /\ register_x = pre.x
    /\ register_y = pre.y
    /\ status = pre.status
    /\ program_counter = pre.pc

VectorHolds(mem, v) ==
    Byte(mem, ResetVector) = v % 256 /\ Byte(mem, ResetVector + 1) = v \div 256

\* C5 as stated: after a load that returned, every byte of the program is at
\* 0x8000 + i, the reset vector holds 0x8000 and the registers are unchanged.
C5_LoadCopiesEveryByte ==
    (op.name = "load" /\ outcome = Returned) =>
        /\ Holds(memory, LoadBase, op.program, {})
        /\ VectorHolds(memory, LoadBase)
        /\ RegistersAsBefore

\* C5 as amended: after a load that returned, every byte of the program whose
\* address 0x8000 + i is not 0xFFFC or 0xFFFD is at that address, the reset
\* vector at 0xFFFC-0xFFFD holds 0x8000, the registers are unchanged, and no
\* byte outside the program's range and the vector has changed.
C5_LoadCopiesOutsideVector ==
    (op.name = "load" /\ outcome = Returned) =>
        /\ Holds(memory, LoadBase, op.program, {ResetVector, ResetVector + 1})
        /\ VectorHolds(memory, LoadBase)
        /\ RegistersAsBefore
        /\ \A a \in (DOMAIN memory \cup DOMAIN pre.memory) :
              (a < LoadBase \/ a >= LoadBase + op.program.len) /\
              a \notin {ResetVector, ResetVector + 1} =>
                  Byte(memory, a) = Byte(pre.memory, a)

C5_Witness ==
    /\ op.name = "load"
    /\ outcome = Returned
    /\ op.program.len = 32767
    /\ pre.status = 255
    /\ pre.pc = LoadBase
    /\ Byte(memory, 65534) = INX

\* C6: every fetched LDA stores into the accumulator the byte at its effective
\* address: the operand byte for 0xA9, the byte at the zero-page address the
\* operand names for 0xA5, the byte at the little-endian 16-bit address of the
\* two operand bytes for 0xAD.
C6_LdaLoadsEffectiveByte ==
    (fetched.valid /\ fetched.opscode \in LdaOpcodes) =>
        /\ outcome \notin Panics
        /\ LET o1 == Byte(memory, fetched.pc + 1)
               o2 == Byte(memory, fetched.pc + 2)
           IN  register_a =
                 CASE fetched.opscode = LDA_IMM -> o1
                   [] fetched.opscode = LDA_ZP -> Byte(memory, o1)
                   [] fetched.opscode = LDA_ABS -> Byte(memory, o2 * 256 + o1)

\* C7: after an LDA has loaded v into the accumulator, Zero (bit 1) is set iff
\* v = 0 and Negative (bit 7) is set iff v >= 0x80, whatever status held.
C7_LdaFlags ==
    LdaExecuted =>
        /\ ZeroFlag(status) <=> register_a = 0
        /\ NegativeFlag(status) <=> register_a >= 128

C7_Witness ==
    /\ LdaExecuted
    /\ fetched.status = 255
    /\ register_a = 5
    /\ status = 125

InxInxBrk == Vec(<<232, 232, 0>>)

\* C8 as stated: with X = 0xFF before load_and_run, [0xE8, 0xE8, 0x00] ends
\* with X = 1.
C8_InxTwiceFromFF ==
    (op.name = "load_and_run" /\ op.program = InxInxBrk /\ pre.x = 255
        /\ outcome = Returned) => register_x = 1

\* C8 as amended: with X = 0xFF before load_and_run, [0xE8, 0xE8, 0x00] ends
\* with X = 2, since the reset inside load_and_run clears X; it ends with
\* X = 1 when run is entered at 0x8000 with X = 0xFF, without a reset.
C8_InxTwiceAfterReset ==
    /\ (op.name = "load_and_run" /\ op.program = InxInxBrk /\ pre.x = 255
          /\ outcome = Returned) => register_x = 2
    /\ (op.name = "run" /\ pre.x = 255 /\ pre.pc = LoadBase
          /\ Byte(memory, LoadBase) = INX /\ Byte(memory, LoadBase + 1) = INX
          /\ Byte(memory, LoadBase + 2) = BRK
          /\ outcome = Returned) => register_x = 1

C8_Witness ==
    /\ op.name = "load_and_run"
    /\ op.program = InxInxBrk
    /\ pre.x = 255
    /\ outcome = Returned
    /\ program_counter = LoadBase + 3

\* C9: the 16-bit accesses wrap address + 1: mem_read_u16(0xFFFF) returns the
\* byte at 0xFFFF as low byte and the byte at 0x0000 as high byte, and
\* mem_write_u16(0xFFFF, v) stores the high byte of v at 0x0000, without a
\* panic.
C9_Word16Wraps ==
    /\ (op.name = "mem_read_u16" /\ op.addr = 65535) =>
          /\ outcome = Returned
          /\ ret = Byte(pre.memory, 65535) + 256 * Byte(pre.memory, 0)
    /\ (op.name = "mem_write_u16" /\ op.addr = 65535) =>
          /\ outcome = Returned
          /\ Byte(memory, 0) = op.value \div 256

\* C10: reset returns with A, X and status zero and the program counter equal
\* to the little-endian word at 0xFFFC-0xFFFD, and leaves Y and memory as they
\* were; a reset that follows a load leaves the program counter at 0x8000.
C10_Reset ==
    op.name = "reset" =>
        /\ outcome = Returned
        /\ register_a = 0
        /\ register_x = 0
        /\ status = 0
        /\ program_counter = Byte(memory, 65532) + 256 * Byte(memory, 65533)
        /\ register_y = pre.y
        /\ memory = pre.memory
        /\ op.prev = "load" => program_counter = LoadBase

C10_Witness ==
    /\ op.name = "reset"
    /\ op.prev = "load"
    /\ pre.pc = 65534
    /\ pre.y = 7
    /\ program_counter = LoadBase

\* the last transition executed the instruction `opscode` to its end
Executed(opscode) ==
    fetched.valid /\ fetched.opscode = opscode /\ outcome \notin Panics

\* C11: INX leaves X = (X + 1) mod 256 for every prior X, with Zero and
\* Negative recomputed from the new X: from 0xFF it gives 0x00 with Zero set
\* and Negative clear.
C11_InxWraps ==
    Executed(INX) =>
        /\ register_x = (fetched.x + 1) % 256
        /\ ZeroFlag(status) <=> register_x = 0
        /\ NegativeFlag(status) <=> register_x >= 128
        /\ fetched.x = 255 =>
              register_x = 0 /\ ZeroFlag(status) /\ ~ NegativeFlag(status)

C11_Witness ==
    /\ Executed(INX)
    /\ fetched.x = 255
    /\ fetched.status = 255
    /\ register_x = 0
    /\ status = 127

\* C12: TAX with the accumulator holding v leaves X = v and the accumulator
\* still v, Zero set iff v = 0, Negative set iff v >= 0x80, and the program
\* counter one past the opcode.
C12_Tax ==
    Executed(TAX) =>
        /\ register_x = fetched.a
        /\ register_a = fetched.a
        /\ ZeroFlag(status) <=> fetched.a = 0
        /\ NegativeFlag(status) <=> fetched.a >= 128
        /\ program_counter = fetched.pc + 1

C12_Witness ==
    /\ Executed(TAX)
    /\ fetched.a = 128
    /\ fetched.x = 127
    /\ fetched.status = 125
    /\ register_x = 128
    /\ status = 253

\* the six status bits other than Zero (bit 1) and Negative (bit 7)
OtherBits(st) == <<st % 2, (st \div 4) % 32>>

\* C17: an executed LDA, TAX or INX leaves the six status bits 0, 2, 3, 4, 5
\* and 6 as they were before the instruction.
C17_FlagUpdateFrame ==
    (fetched.valid /\ fetched.opscode \in (LdaOpcodes \cup {TAX, INX})
        /\ outcome \notin Panics) =>
        OtherBits(status) = OtherBits(fetched.status)

C17_Witness ==
    /\ Executed(INX)
    /\ fetched.status = 125
    /\ fetched.x = 127
    /\ status = 253

\* C13: for every address up to 0xFFFD and every 16-bit value, mem_write_u16
\* followed by mem_read_u16 at the same address returns the value, and the
\* write changes no byte but the two at addr and addr + 1.
C13_Word16RoundTrip ==
    (op.name = "mem_write_u16; mem_read_u16" /\ op.addr <= 65533) =>
        /\ outcome = Returned
        /\ ret = op.value
        /\ \A a \in (DOMAIN memory \cup DOMAIN pre.memory) :
              a \notin {op.addr, op.addr + 1} =>
                  Byte(memory, a) = Byte(pre.memory, a)

C13_Witness ==
    /\ op.name = "mem_write_u16; mem_read_u16"
    /\ op.addr = 65533
    /\ op.value = 4660
    /\ ret = 4660
    /\ Byte(memory, 65533) = 52
    /\ Byte(memory, 65534) = 18

Resolved(mode) ==
    op.name = "get_op_address" /\ op.mode = mode /\ outcome = Returned

OperandByte == Byte(memory, program_counter)

\* C14: in ZeroPage,X and ZeroPage,Y the effective address is (operand byte +
\* index register) mod 256, within 0x0000-0x00FF: operand 0xFF with X = 0x02
\* gives 0x01.
C14_ZeroPageIndexedWraps ==
    /\ Resolved("ZeroPage_X") =>
          ret = (OperandByte + register_x) % 256 /\ ret \in 0..255
    /\ Resolved("ZeroPage_Y") =>
          ret = (OperandByte + register_y) % 256 /\ ret \in 0..255
    /\ (Resolved("ZeroPage_X") /\ OperandByte = 255 /\ register_x = 2) => ret = 1

C14_Witness ==
    /\ Resolved("ZeroPage_X")
    /\ OperandByte = 255
    /\ register_x = 2
    /\ ret = 1

\* C15: in Indirect_X and Indirect_Y both pointer bytes come from the zero
\* page, the high byte from (pointer + 1) mod 256, so that a pointer of 0xFF
\* has its high byte at 0x0000; Indirect_Y then adds Y modulo 2^16.
C15_IndirectPointerWraps ==
    /\ Resolved("Indirect_X") =>
          LET ptr == (OperandByte + register_x) % 256 IN
          ret = Byte(memory, ptr) + 256 * Byte(memory, (ptr + 1) % 256)
    /\ Resolved("Indirect_Y") =>
          LET ptr == OperandByte IN
          ret = (Byte(memory, ptr) + 256 * Byte(memory, (ptr + 1) % 256)
                   + register_y) % 65536

C15_Witness ==
    /\ Resolved("Indirect_Y")
    /\ OperandByte = 255
    /\ Byte(memory, 0) = 255
    /\ Byte(memory, 256) = 119
    /\ register_y = 2
    /\ ret = 1

\* C18: every run terminates, in the return of the 0x00 arm or in a panic; it
\* returns only when the opcode fetched last is 0x00; and every fetched
\* instruction leaves the program counter strictly greater than it was.
C18_RunTerminates ==
    /\ (outcome = Running) ~> (outcome = Returned \/ outcome \in Panics)
    /\ []((op.name \in {"run", "load_and_run"} /\ outcome = Returned) =>
             (fetched.valid /\ fetched.opscode = BRK))
    /\ [][(outcome = Running /\ fetched'.valid) =>
             program_counter' > program_counter]_vars

C18_Witness ==
    /\ op.name = "run"
    /\ pre.pc = 65534
    /\ Byte(memory, 65534) = INX
    /\ program_counter = 65535
    /\ register_x = 1
    /\ outcome = IndexPanic

\* C19: run never changes memory or Y: during a call of run both are as at its
\* start, no iteration of the loop changes either, and the iteration that
\* fetches BRK changes nothing but the program counter.
C19_RunFrame ==
    /\ [](op.name = "run" => (memory = pre.memory /\ register_y = pre.y))
    /\ [][outcome = Running =>
            /\ memory' = memory
            /\ register_y' = register_y
            /\ (program_counter < MemSize /\ Byte(memory, program_counter) = BRK) =>
                  /\ register_a' = register_a
                  /\ register_x' = register_x
                  /\ status' = status
                  /\ program_counter' = program_counter + 1
                  /\ outcome' = Returned]_vars

C19_Witness ==
    /\ op.name = "run"
    /\ outcome = Returned
    /\ fetched.valid
    /\ fetched.opscode = BRK
    /\ fetched.pc = LoadBase + 2
    /\ pre.a = 128
    /\ register_a = 0
    /\ register_y = 255
    /\ Byte(memory, LoadBase) = LDA_ZP

\* run was entered after a reset: inside load_and_run, or by a call of run
\* that follows a call of reset
RunAfterReset ==
    \/ op.name = "load_and_run" /\ outcome # SlicePanic
    \/ op.name = "run" /\ op.prev = "reset"

FlagsFollowX ==
    /\ ZeroFlag(status) <=> register_x = 0
    /\ NegativeFlag(status) <=> register_x >= 128

\* C20: in a run entered after a reset, Zero and Negative are never both set
\* and every other status bit is 0; a TAX or INX leaves Zero set iff X = 0 and
\* Negative set iff bit 7 of X is set, and that stays so until an LDA is
\* fetched.
C20_FlagsAfterReset ==
    /\ [](RunAfterReset => status \in {0, 2, 128})
    /\ [][(outcome = Running /\ fetched'.valid /\ fetched'.opscode \in {TAX, INX})
            => FlagsFollowX']_vars
    /\ [][(outcome = Running /\ FlagsFollowX
             /\ ~ (fetched'.valid /\ fetched'.opscode \in LdaOpcodes))
            => FlagsFollowX']_vars

C20_Witness ==
    /\ op.name = "load_and_run"
    /\ pre.status = 255
    /\ outcome = Returned
    /\ fetched.opscode = BRK
    /\ register_x = 193
    /\ status = 128

====
